---- MODULE Spec2Model ----
(***************************************************************************)
(* Frostbite runtime: the segmented bump allocator of                      *)
(* cauldron/toolchain/lib/frostbite_alloc.c (target RV64: size_t and       *)
(* uintptr_t are 64 bits wide) and, in the second half of the module, the  *)
(* soft-float primitives of cauldron/toolchain/lib/frostbite_softfloat.c.  *)
(* Spec is the allocator; FloatSpec makes one call of one soft-float       *)
(* primitive on an argument drawn from the input sets.                     *)
(*                                                                         *)
(* A number is a tuple <<x3, x2, x1, x0>> of limbs in base 2^28, most      *)
(* significant first: value = ((x3 * 2^28 + x2) * 2^28 + x1) * 2^28 + x0.  *)
(* A 64-bit word has x3 = 0 and x2 < 2^8.  The limb width equals the       *)
(* segment shift of FB_SEGMENT_ADDR, so x0 is the offset field of an       *)
(* address and <<x2, x1>> its segment identifier.                          *)
(***************************************************************************)
EXTENDS Integers, Sequences, FiniteSets, TLC

\* ------------------------------------------------------------------------
\* Bounds of the model
\* ------------------------------------------------------------------------
MaxCalls == 4

\* ------------------------------------------------------------------------
\* Program constants
\* ------------------------------------------------------------------------
WORD_BITS == 64
SEGMENT_SHIFT == 28
SEGMENT_NIBBLE == 16
ALIGN == 8
FB_HEAP_OFFSET == 0
FB_RAM_BYTES == 4194304
FB_HEAP_SEGMENT_COUNT == 1

\* ------------------------------------------------------------------------
\* 64-bit unsigned arithmetic on limbs
\* ------------------------------------------------------------------------
LIMB == 2 ^ SEGMENT_SHIFT
TOP == 2 ^ (WORD_BITS - 2 * SEGMENT_SHIFT)

U64(n) == <<0, 0, n \div LIMB, n % LIMB>>

NULL == U64(0)
NoRet == <<>>
SIZE_MAX == <<0, TOP - 1, LIMB - 1, LIMB - 1>>

\* exact sum, never wraps (the top limb takes the carry)
WAdd(a, b) ==
    LET s0 == a[4] + b[4]
        s1 == a[3] + b[3] + (s0 \div LIMB)
        s2 == a[2] + b[2] + (s1 \div LIMB)
        s3 == a[1] + b[1] + (s2 \div LIMB)
    IN  <<s3, s2 % LIMB, s1 % LIMB, s0 % LIMB>>

WLt(a, b) ==
    \/ a[1] < b[1]
    \/ a[1] = b[1] /\ a[2] < b[2]
    \/ a[1] = b[1] /\ a[2] = b[2] /\ a[3] < b[3]
    \/ a[1] = b[1] /\ a[2] = b[2] /\ a[3] = b[3] /\ a[4] < b[4]

WLe(a, b) == a = b \/ WLt(a, b)

\* reduction modulo 2^64
Trunc64(a) == <<0, a[2] % TOP, a[3], a[4]>>

Add64(a, b) == Trunc64(WAdd(a, b))

Not64(a) == <<0, (TOP - 1) - a[2], (LIMB - 1) - a[3], (LIMB - 1) - a[4]>>

Sub64(a, b) == Add64(a, Add64(Not64(b), U64(1)))

\* a & ~(align - 1), align a power of two that divides the limb base
ClearLow(a, align) == <<a[1], a[2], a[3], a[4] - (a[4] % align)>>

\* ------------------------------------------------------------------------
\* The allocator on a heap record h (one field per static of the source,
\* msg the diagnostic of fb_alloc_panic, "" while the process runs, lazy
\* set when the compiled-in defaults were applied by the current call)
\* ------------------------------------------------------------------------
Exited(h) == h.msg # ""

fb_alloc_panic(h, text) == [h EXCEPT !.msg = text]

\* fb_align_up that returns the value as it is
fb_align_up_no_rounding(value, align) == value
fb_align_up(value, align) == ClearLow(Add64(value, U64(align - 1)), align)

fb_is_segment_addr(addr) == (addr[3] % SEGMENT_NIBBLE) # 0

FB_SEGMENT_ADDR(seg, offset) == <<0, seg \div LIMB, seg % LIMB, offset[4]>>

fb_heap_set_segment(h, index) ==
    IF h.segment_start = 0 \/ h.segment_count = 0
    THEN fb_alloc_panic(h, "not configured")
    ELSE IF index >= h.segment_count
    THEN [h EXCEPT !.ptr = NULL, !.end = NULL]
    ELSE LET offset == IF index = 0 THEN h.segment_offset ELSE U64(0) IN
         IF WLe(h.segment_bytes, offset)
         THEN fb_alloc_panic(h, "offset exceeds RAM size")
         ELSE LET base == FB_SEGMENT_ADDR(h.segment_start + index, offset) IN
              [h EXCEPT !.ptr = base,
                        !.end = Add64(base, Sub64(h.segment_bytes, offset))]

\* fb_heap_init_default without its null test: every call applies the defaults
fb_heap_init_default_unguarded(h, defseg) ==
    fb_heap_set_segment(
        [h EXCEPT !.use_segments = 1,
                  !.segment_start = defseg,
                  !.segment_count = FB_HEAP_SEGMENT_COUNT,
                  !.segment_index = 0,
                  !.segment_bytes = U64(FB_RAM_BYTES),
                  !.segment_offset = U64(FB_HEAP_OFFSET),
                  !.lazy = TRUE], 0)

fb_heap_init_default(h, defseg) ==
    IF h.ptr = NULL \/ h.end = NULL
    THEN fb_heap_set_segment(
             [h EXCEPT !.use_segments = 1,
                       !.segment_start = defseg,
                       !.segment_count = FB_HEAP_SEGMENT_COUNT,
                       !.segment_index = 0,
                       !.segment_bytes = U64(FB_RAM_BYTES),
                       !.segment_offset = U64(FB_HEAP_OFFSET),
                       !.lazy = TRUE], 0)
    ELSE h

\* fb_heap_init whose else branch leaves the cursor and the end alone
fb_heap_init_keeps_cursor(h, base, size) ==
    IF base # NULL /\ size # NULL
    THEN IF ~fb_is_segment_addr(base)
         THEN fb_alloc_panic(h, "base must be a RAM segment address")
         ELSE [h EXCEPT !.use_segments = 0,
                        !.ptr = base,
                        !.end = Add64(base, size)]
    ELSE [h EXCEPT !.use_segments = 1]
fb_heap_init(h, base, size) ==
    IF base # NULL /\ size # NULL
    THEN IF ~fb_is_segment_addr(base)
         THEN fb_alloc_panic(h, "base must be a RAM segment address")
         ELSE [h EXCEPT !.use_segments = 0,
                        !.ptr = base,
                        !.end = Add64(base, size)]
    ELSE [h EXCEPT !.use_segments = 1, !.ptr = NULL, !.end = NULL]

\* fb_heap_init_segments whose test forgets bytes_per_segment
fb_heap_init_segments_no_bytes_test(h, start_segment, count, offset, bytes_per_segment) ==
    IF start_segment = 0 \/ count = 0
    THEN fb_alloc_panic(h, "invalid RAM segment configuration")
    ELSE fb_heap_set_segment(
             [h EXCEPT !.use_segments = 1,
                       !.segment_start = start_segment,
                       !.segment_count = count,
                       !.segment_index = 0,
                       !.segment_bytes = bytes_per_segment,
                       !.segment_offset = offset], 0)

fb_heap_init_segments(h, start_segment, count, offset, bytes_per_segment) ==
    IF start_segment = 0 \/ count = 0 \/ bytes_per_segment = NULL
    THEN fb_alloc_panic(h, "invalid RAM segment configuration")
    ELSE fb_heap_set_segment(
             [h EXCEPT !.use_segments = 1,
                       !.segment_start = start_segment,
                       !.segment_count = count,
                       !.segment_index = 0,
                       !.segment_bytes = bytes_per_segment,
                       !.segment_offset = offset], 0)

\* the retry loop of fb_malloc, size already rounded
RECURSIVE fb_malloc_retry(_, _)
fb_malloc_retry(h, size) ==
    IF WLt(h.end, Add64(h.ptr, size))
    THEN IF h.use_segments = 1 /\ h.segment_index + 1 < h.segment_count
         THEN LET h1 == fb_heap_set_segment(
                            [h EXCEPT !.segment_index = h.segment_index + 1],
                            h.segment_index + 1)
              IN  IF Exited(h1)
                  THEN [h |-> h1, ret |-> NoRet]
                  ELSE fb_malloc_retry(h1, size)
         ELSE [h |-> h, ret |-> NULL]
    ELSE [h |-> [h EXCEPT !.ptr = Add64(h.ptr, size)], ret |-> h.ptr]

\* fb_malloc that initialises the heap before it looks at the size
fb_malloc_init_first(h, size, defseg) ==
    LET h1 == fb_heap_init_default(h, defseg) IN
    IF Exited(h1)
    THEN [h |-> h1, ret |-> NoRet]
    ELSE IF size = NULL
    THEN [h |-> h1, ret |-> NULL]
    ELSE fb_malloc_retry(h1, fb_align_up(size, ALIGN))

fb_malloc(h, size, defseg) ==
    IF size = NULL
    THEN [h |-> h, ret |-> NULL]
    ELSE LET h1 == fb_heap_init_default(h, defseg) IN
         IF Exited(h1)
         THEN [h |-> h1, ret |-> NoRet]
         ELSE fb_malloc_retry(h1, fb_align_up(size, ALIGN))

fb_free(h, ptr) == h

\* ------------------------------------------------------------------------
\* State
\* ------------------------------------------------------------------------
VARIABLES
    FB_HEAP_SEGMENT,         \* the build's -DFB_HEAP_SEGMENT, fixed per run
    fb_heap_ptr,
    fb_heap_end,
    fb_heap_segment_start,
    fb_heap_segment_count,
    fb_heap_segment_index,
    fb_heap_segment_bytes,
    fb_heap_segment_offset,
    fb_heap_use_segments,
    panic_msg,               \* diagnostic printed before fb_exit(1), "" if none
    call,                    \* the latest call: operation, arguments, result
    allocs,                  \* non-null results since the last configuration
    freed,                   \* addresses of allocs passed to fb_free
    windows,                 \* [base, end) of every configured segment
    default_inits,           \* times the compiled-in defaults were applied
    explicit_cfg,            \* an explicit configuration is in force
    ever_explicit,           \* an explicit configuration was accepted earlier
    oversized,               \* a request of 2^63 bytes or more was made
    ncalls

heapVars == <<fb_heap_ptr, fb_heap_end, fb_heap_segment_start,
              fb_heap_segment_count, fb_heap_segment_index,
              fb_heap_segment_bytes, fb_heap_segment_offset,
              fb_heap_use_segments>>

vars == <<FB_HEAP_SEGMENT, fb_heap_ptr, fb_heap_end, fb_heap_segment_start,
          fb_heap_segment_count, fb_heap_segment_index,
          fb_heap_segment_bytes, fb_heap_segment_offset,
          fb_heap_use_segments, panic_msg, call, allocs, freed, windows,
          default_inits, explicit_cfg, ever_explicit, oversized, ncalls>>

Heap == [ptr            |-> fb_heap_ptr,
         end            |-> fb_heap_end,
         segment_start  |-> fb_heap_segment_start,
         segment_count  |-> fb_heap_segment_count,
         segment_index  |-> fb_heap_segment_index,
         segment_bytes  |-> fb_heap_segment_bytes,
         segment_offset |-> fb_heap_segment_offset,
         use_segments   |-> fb_heap_use_segments,
         msg            |-> panic_msg,
         lazy           |-> FALSE]

SetHeap(h) ==
    /\ fb_heap_ptr' = h.ptr
    /\ fb_heap_end' = h.end
    /\ fb_heap_segment_start' = h.segment_start
    /\ fb_heap_segment_count' = h.segment_count
    /\ fb_heap_segment_index' = h.segment_index
    /\ fb_heap_segment_bytes' = h.segment_bytes
    /\ fb_heap_segment_offset' = h.segment_offset
    /\ fb_heap_use_segments' = h.use_segments
    /\ panic_msg' = h.msg

\* ------------------------------------------------------------------------
\* Inputs
\* ------------------------------------------------------------------------
BuildSegments == {0, 1}

SizeInputs == {U64(0), U64(1), U64(48), U64(64), U64(128),
               SIZE_MAX,
               Sub64(NULL, U64(8)),
               Sub64(NULL, FB_SEGMENT_ADDR(1, NULL))}

BaseInputs == {NULL, U64(4096), FB_SEGMENT_ADDR(1, NULL),
               FB_SEGMENT_ADDR(16, NULL)}

FlatSizeInputs == {U64(0), U64(64)}

\* segment numbers far below 2^32: the uint32 sum start + index cannot wrap
StartInputs == {0, 1, 16}

CountInputs == {0, 1, 2}

OffsetInputs == {U64(0), U64(16), U64(64)}

BytesInputs == {U64(0), U64(64)}

\* the arguments of fb_heap_init_segments: every combination of the values
\* above, two segments of more than the 2^28 bytes one segment identifier
\* spans, and a first-segment offset that is not a multiple of 8
ConfigInputs ==
    (StartInputs \X CountInputs \X OffsetInputs \X BytesInputs)
    \cup {<<1, 2, U64(0), WAdd(U64(LIMB), U64(64))>>,
          <<1, 2, U64(4), U64(64)>>}

\* ------------------------------------------------------------------------
\* The segment windows of a configuration
\* ------------------------------------------------------------------------
SegmentWindow(h, index) ==
    LET s == fb_heap_set_segment(h, index) IN [base |-> s.ptr, end |-> s.end]

\* the windows of the segments start .. start + count - 1
SegmentWindows(h) ==
    IF Exited(h) THEN {}
    ELSE {SegmentWindow(h, i) : i \in 0 .. (h.segment_count - 1)}

\* the window of a flat heap, none after fb_heap_init(NULL, 0)
FlatWindow(h) ==
    IF Exited(h) \/ h.ptr = NULL THEN {}
    ELSE {[base |-> h.ptr, end |-> h.end]}

\* ------------------------------------------------------------------------
\* Operations
\* ------------------------------------------------------------------------
Running == panic_msg = "" /\ ncalls < MaxCalls

Init ==
    /\ FB_HEAP_SEGMENT \in BuildSegments
    /\ fb_heap_ptr = NULL
    /\ fb_heap_end = NULL
    /\ fb_heap_segment_start = FB_HEAP_SEGMENT
    /\ fb_heap_segment_count = FB_HEAP_SEGMENT_COUNT
    /\ fb_heap_segment_index = 0
    /\ fb_heap_segment_bytes = U64(FB_RAM_BYTES)
    /\ fb_heap_segment_offset = U64(FB_HEAP_OFFSET)
    /\ fb_heap_use_segments = 1
    /\ panic_msg = ""
    /\ call = [op |-> "none", args |-> <<>>, ret |-> NoRet, lazy |-> FALSE]
    /\ allocs = <<>>
    /\ freed = {}
    /\ windows = {}
    /\ default_inits = 0
    /\ explicit_cfg = FALSE
    /\ ever_explicit = FALSE
    /\ oversized = FALSE
    /\ ncalls = 0

DoMalloc(name, size) ==
    LET r == fb_malloc(Heap, size, FB_HEAP_SEGMENT) IN
    /\ SetHeap(r.h)
    /\ call' = [op |-> name, args |-> <<size>>, ret |-> r.ret,
                lazy |-> r.h.lazy]
    /\ allocs' = IF r.ret # NoRet /\ r.ret # NULL
                 THEN Append(allocs, [addr |-> r.ret, size |-> size])
                 ELSE allocs
    /\ windows' = IF r.h.lazy THEN SegmentWindows(r.h) ELSE windows
    /\ default_inits' = IF r.h.lazy THEN default_inits + 1 ELSE default_inits
    /\ ncalls' = ncalls + 1
    /\ oversized' = (oversized \/ size[2] >= TOP \div 2)
    /\ UNCHANGED <<FB_HEAP_SEGMENT, freed, explicit_cfg, ever_explicit>>

DoFree(name, ptr) ==
    /\ SetHeap(fb_free(Heap, ptr))
    /\ call' = [op |-> name, args |-> <<ptr>>, ret |-> NoRet, lazy |-> FALSE]
    /\ freed' = IF \E i \in 1 .. Len(allocs) : allocs[i].addr = ptr
                THEN freed \cup {ptr} ELSE freed
    /\ ncalls' = ncalls + 1
    /\ UNCHANGED <<FB_HEAP_SEGMENT, allocs, windows, default_inits,
                   explicit_cfg, ever_explicit, oversized>>

DoConfigure(name, args, h, w) ==
    /\ SetHeap(h)
    /\ call' = [op |-> name, args |-> args, ret |-> NoRet, lazy |-> FALSE]
    /\ allocs' = <<>>
    /\ freed' = {}
    /\ windows' = w
    /\ explicit_cfg' = (~Exited(h) /\ h.ptr # NULL)
    /\ ever_explicit' = (ever_explicit \/ (~Exited(h) /\ h.ptr # NULL))
    /\ ncalls' = ncalls + 1
    /\ UNCHANGED <<FB_HEAP_SEGMENT, default_inits, oversized>>

Malloc == Running /\ \E size \in SizeInputs : DoMalloc("fb_malloc", size)

MallocAlias == Running /\ \E size \in SizeInputs : DoMalloc("malloc", size)

Free ==
    /\ Running
    /\ \E ptr \in {NULL} \cup {allocs[i].addr : i \in 1 .. Len(allocs)} :
           DoFree("fb_free", ptr)

FreeAlias ==
    /\ Running
    /\ \E ptr \in {NULL} \cup {allocs[i].addr : i \in 1 .. Len(allocs)} :
           DoFree("free", ptr)

HeapInit ==
    /\ Running
    /\ \E base \in BaseInputs, size \in FlatSizeInputs :
           LET h == fb_heap_init(Heap, base, size)
           IN  DoConfigure("fb_heap_init", <<base, size>>, h, FlatWindow(h))

HeapInitSegments ==
    /\ Running
    /\ \E cfg \in ConfigInputs :
           LET h == fb_heap_init_segments(Heap, cfg[1], cfg[2], cfg[3], cfg[4])
           IN  DoConfigure("fb_heap_init_segments", cfg, h, SegmentWindows(h))

Next ==
    \/ Malloc
    \/ MallocAlias
    \/ Free
    \/ FreeAlias
    \/ HeapInit
    \/ HeapInitSegments

Spec == Init /\ [][Next]_vars

\* ------------------------------------------------------------------------
\* Vocabulary of the properties
\* ------------------------------------------------------------------------
MallocOps == {"fb_malloc", "malloc"}

FreeOps == {"fb_free", "free"}

IsNonZeroMalloc(c) == c.op \in MallocOps /\ c.args[1] # NULL

Returned(c) == c.op \in MallocOps /\ c.ret # NoRet /\ c.ret # NULL

Unconfigured == fb_heap_ptr = NULL \/ fb_heap_end = NULL

\* the requested size rounded up to a multiple of 8, as a number (no wrap)
RoundUp8(size) == ClearLow(WAdd(size, U64(ALIGN - 1)), ALIGN)

RangeEnd(a) == WAdd(a.addr, a.size)

Disjoint(a, b) == WLe(RangeEnd(a), b.addr) \/ WLe(RangeEnd(b), a.addr)

InWindow(a, w) == WLe(w.base, a.addr) /\ WLe(RangeEnd(a), w.end)

RECURSIVE Capacity(_)
Capacity(ws) ==
    IF ws = {} THEN NULL
    ELSE LET w == CHOOSE x \in ws : TRUE
         IN  WAdd(Sub64(w.end, w.base), Capacity(ws \ {w}))

RECURSIVE Granted(_)
Granted(as) ==
    IF as = <<>> THEN NULL
    ELSE WAdd(RoundUp8(Head(as).size), Granted(Tail(as)))

SegmentId(addr) == <<addr[2], addr[3]>>

\* ------------------------------------------------------------------------
\* C1 (as claimed): the ranges [addr, addr + requested size) returned since
\* the heap was configured are pairwise disjoint, and each lies inside the
\* window [base, end) of exactly one configured segment.
\* ------------------------------------------------------------------------
C1_DisjointInOneSegment ==
    /\ \A i, j \in 1 .. Len(allocs) :
           i < j => Disjoint(allocs[i], allocs[j])
    /\ \A i \in 1 .. Len(allocs) :
           Cardinality({w \in windows : InWindow(allocs[i], w)}) = 1

\* ------------------------------------------------------------------------
\* C2 (as claimed, counting the requests that were served): once the
\* rounded sizes handed out add up to the configured capacity or more,
\* every fb_malloc of a non-zero size returns null.
\* ------------------------------------------------------------------------
C2_ExhaustedStaysNull ==
    [][(/\ ~Unconfigured
        /\ windows # {}
        /\ WLe(Capacity(windows), Granted(allocs))
        /\ IsNonZeroMalloc(call')
        /\ ncalls' = ncalls + 1)
       => call'.ret = NULL]_vars

\* ------------------------------------------------------------------------
\* C3 (as claimed): a non-zero request whose rounded size does not fit
\* between the cursor and the end of the active segment is served at offset
\* 0 of a later segment when one remains (the index has advanced), and
\* returns null with no segment left otherwise.
\* ------------------------------------------------------------------------
C3_AdvanceOrNull ==
    [][(/\ IsNonZeroMalloc(call')
        /\ ncalls' = ncalls + 1
        /\ ~Unconfigured
        /\ WLt(fb_heap_end, WAdd(fb_heap_ptr, RoundUp8(call'.args[1]))))
       => IF fb_heap_use_segments = 1
             /\ fb_heap_segment_index + 1 < fb_heap_segment_count
          THEN /\ fb_heap_segment_index' > fb_heap_segment_index
               /\ \/ call'.ret = FB_SEGMENT_ADDR(
                          fb_heap_segment_start + fb_heap_segment_index', NULL)
                  \/ /\ call'.ret = NULL
                     /\ fb_heap_segment_index' = fb_heap_segment_count - 1
          ELSE call'.ret = NULL]_vars

\* ------------------------------------------------------------------------
\* C4 (as claimed): while an accepted explicit configuration is in force,
\* no fb_malloc or fb_free call ends in fb_alloc_panic.
\* ------------------------------------------------------------------------
C4_NoPanicAfterValidConfig ==
    (explicit_cfg /\ call.op \in MallocOps \cup FreeOps) => panic_msg = ""

\* ------------------------------------------------------------------------
\* C5: fb_heap_init_segments with start_segment = 0, count = 0 or
\* bytes_per_segment = 0 prints its diagnostic and exits with every heap
\* variable as it was; a non-zero fb_malloc on an unconfigured heap of a
\* build with FB_HEAP_SEGMENT = 0 exits too and returns no address.
\* ------------------------------------------------------------------------
C5_InvalidConfigIsFatal ==
    [][/\ (/\ call'.op = "fb_heap_init_segments"
           /\ ncalls' = ncalls + 1
           /\ \/ call'.args[1] = 0
              \/ call'.args[2] = 0
              \/ call'.args[4] = NULL)
          => /\ panic_msg' = "invalid RAM segment configuration"
             /\ UNCHANGED heapVars
       /\ (/\ IsNonZeroMalloc(call')
           /\ ncalls' = ncalls + 1
           /\ Unconfigured
           /\ FB_HEAP_SEGMENT = 0)
          => /\ panic_msg' = "not configured"
             /\ call'.ret = NoRet]_vars

C5_Witness ==
    /\ call.op = "fb_heap_init_segments"
    /\ call.args[1] # 0 /\ call.args[2] # 0 /\ call.args[4] = NULL
    /\ panic_msg = "invalid RAM segment configuration"
    /\ fb_heap_ptr # NULL

\* ------------------------------------------------------------------------
\* C6 (as claimed): fb_heap_init with a non-null base and a non-zero size
\* accepts the base exactly when its segment identifier base >> 28 is
\* non-zero, and exits exactly when it is zero.
\* ------------------------------------------------------------------------
C6_AcceptsNonZeroSegmentId ==
    (/\ call.op = "fb_heap_init"
     /\ call.args[1] # NULL
     /\ call.args[2] # NULL)
    => ((panic_msg = "") <=> (SegmentId(call.args[1]) # <<0, 0>>))

\* ------------------------------------------------------------------------
\* C7: fb_malloc(0) returns null, never exits and leaves every heap
\* variable as it was (no lazy default initialisation).
\* ------------------------------------------------------------------------
C7_ZeroSizeIsNullNoEffect ==
    [][(call'.op \in MallocOps /\ ncalls' = ncalls + 1 /\ call'.args[1] = NULL)
       => /\ call'.ret = NULL
          /\ panic_msg' = ""
          /\ ~call'.lazy
          /\ UNCHANGED heapVars]_vars

C7_Witness ==
    /\ call.op \in MallocOps /\ call.args[1] = NULL /\ call.ret = NULL
    /\ Unconfigured
    /\ FB_HEAP_SEGMENT = 0
    /\ panic_msg = ""

\* ------------------------------------------------------------------------
\* C8 (as claimed): fb_free leaves every heap variable as it was, and an
\* address that was returned and then freed is not returned again by a
\* later fb_malloc on the same configuration.
\* ------------------------------------------------------------------------
C8_FreeNoEffectNoReuse ==
    [][/\ (call'.op \in FreeOps /\ ncalls' = ncalls + 1)
          => UNCHANGED heapVars
       /\ (call'.op \in MallocOps /\ ncalls' = ncalls + 1)
          => call'.ret \notin freed]_vars

\* ------------------------------------------------------------------------
\* C9 (as claimed, for runs whose requests all stay below 2^63 bytes): the
\* compiled-in defaults are applied at most once in a run, and never after
\* an explicit configuration.
\* ------------------------------------------------------------------------
C9_DefaultsAtMostOnce ==
    ~oversized => /\ default_inits <= 1
                  /\ call.lazy => ~ever_explicit

\* C9 (amended): the compiled-in defaults are applied by a non-zero
\* fb_malloc exactly when the cursor or the segment end is null at that
\* call, once per such call, and by no other operation.
C9_DefaultsExactlyWhenUnconfigured ==
    [][IF IsNonZeroMalloc(call') /\ ncalls' = ncalls + 1 /\ Unconfigured
       THEN default_inits' = default_inits + 1 /\ call'.lazy
       ELSE default_inits' = default_inits /\ ~call'.lazy]_vars

C9_Witness ==
    /\ default_inits = 2
    /\ call.lazy
    /\ ever_explicit

\* ------------------------------------------------------------------------
\* C10 (as claimed, for fb_malloc and fb_free on a configured heap): the
\* segment index does not decrease, within a segment the cursor does not
\* move backward, and an address handed out is not handed out again.
\* ------------------------------------------------------------------------
C10_CursorMonotonic ==
    [][(/\ call'.op \in MallocOps \cup FreeOps
        /\ ncalls' = ncalls + 1
        /\ ~Unconfigured)
       => /\ fb_heap_segment_index' >= fb_heap_segment_index
          /\ fb_heap_segment_index' = fb_heap_segment_index
                => WLe(fb_heap_ptr, fb_heap_ptr')
          /\ Returned(call')
                => \A i \in 1 .. Len(allocs) : allocs[i].addr # call'.ret]_vars

\* ------------------------------------------------------------------------
\* Unsigned integers of the soft-float code (u32, u64 and the values in
\* between): a natural number is the sequence of its digits in base 2^15,
\* least significant first, without leading zero digits (zero is <<>>).
\* ------------------------------------------------------------------------
RADIX == 2 ^ 15

RECURSIVE BNorm(_)
BNorm(a) ==
    IF a = <<>> THEN <<>>
    ELSE IF a[Len(a)] = 0 THEN BNorm(SubSeq(a, 1, Len(a) - 1))
    ELSE a

RECURSIVE BFromInt(_)
BFromInt(n) == IF n = 0 THEN <<>> ELSE <<n % RADIX>> \o BFromInt(n \div RADIX)

RECURSIVE BToInt(_)
BToInt(a) == IF a = <<>> THEN 0 ELSE a[1] + RADIX * BToInt(Tail(a))

BDigit(a, i) == IF i <= Len(a) THEN a[i] ELSE 0

RECURSIVE BAddCarry(_, _, _)
BAddCarry(a, b, c) ==
    IF a = <<>> /\ b = <<>>
    THEN (IF c = 0 THEN <<>> ELSE <<c>>)
    ELSE LET s == BDigit(a, 1) + BDigit(b, 1) + c
         IN  <<s % RADIX>> \o BAddCarry(IF a = <<>> THEN <<>> ELSE Tail(a),
                                        IF b = <<>> THEN <<>> ELSE Tail(b),
                                        s \div RADIX)

BAdd(a, b) == BAddCarry(a, b, 0)

\* a - b for a >= b
RECURSIVE BSubBorrow(_, _, _)
BSubBorrow(a, b, c) ==
    IF a = <<>> THEN <<>>
    ELSE LET d == a[1] - BDigit(b, 1) - c
         IN  <<d % RADIX>> \o BSubBorrow(Tail(a),
                                         IF b = <<>> THEN <<>> ELSE Tail(b),
                                         IF d < 0 THEN 1 ELSE 0)

BSub(a, b) == BNorm(BSubBorrow(a, b, 0))

RECURSIVE BLtFrom(_, _, _)
BLtFrom(a, b, i) ==
    IF i = 0 THEN FALSE
    ELSE IF a[i] # b[i] THEN a[i] < b[i]
    ELSE BLtFrom(a, b, i - 1)

BLt(a, b) ==
    IF Len(a) # Len(b) THEN Len(a) < Len(b) ELSE BLtFrom(a, b, Len(a))

BGe(a, b) == ~BLt(a, b)

\* a * m for a digit m
RECURSIVE BMulDigit(_, _, _)
BMulDigit(a, m, c) ==
    IF a = <<>>
    THEN (IF c = 0 THEN <<>> ELSE <<c>>)
    ELSE LET p == a[1] * m + c
         IN  <<p % RADIX>> \o BMulDigit(Tail(a), m, p \div RADIX)

RECURSIVE BMul(_, _)
BMul(a, b) ==
    IF b = <<>> \/ a = <<>> THEN <<>>
    ELSE BAdd(BNorm(BMulDigit(a, b[1], 0)),
              LET t == BMul(a, Tail(b)) IN IF t = <<>> THEN <<>> ELSE <<0>> \o t)

\* a << n and a >> n on the unbounded number
BShl(a, n) ==
    IF a = <<>> THEN <<>>
    ELSE [i \in 1 .. (n \div 15) |-> 0] \o BNorm(BMulDigit(a, 2 ^ (n % 15), 0))

RECURSIVE BShrBits(_, _)
BShrBits(a, r) ==
    IF a = <<>> THEN <<>>
    ELSE <<(a[1] \div (2 ^ r)) + (BDigit(a, 2) % (2 ^ r)) * (2 ^ (15 - r))>>
         \o BShrBits(Tail(a), r)

BShr(a, n) ==
    IF n \div 15 >= Len(a) THEN <<>>
    ELSE BNorm(BShrBits(SubSeq(a, (n \div 15) + 1, Len(a)), n % 15))

\* a & (2^k - 1)
BLow(a, k) ==
    IF k \div 15 >= Len(a) THEN a
    ELSE BNorm(SubSeq(a, 1, k \div 15) \o <<a[(k \div 15) + 1] % (2 ^ (k % 15))>>)

BPow2(k) == BShl(<<1>>, k)

BBit(a, k) == BDigit(a, (k \div 15) + 1) \div (2 ^ (k % 15)) % 2

\* x | y (xor = 0) or x ^ y (xor = 1) of two digits, and of two numbers
RECURSIVE DigitBitwise(_, _, _)
DigitBitwise(x, y, xor) ==
    IF x = 0 THEN y
    ELSE IF y = 0 THEN x
    ELSE (IF xor = 1 THEN ((x % 2) + (y % 2)) % 2
          ELSE IF (x % 2) + (y % 2) > 0 THEN 1 ELSE 0)
         + 2 * DigitBitwise(x \div 2, y \div 2, xor)

RECURSIVE BBitwise(_, _, _)
BBitwise(a, b, xor) ==
    IF a = <<>> THEN b
    ELSE IF b = <<>> THEN a
    ELSE <<DigitBitwise(a[1], b[1], xor)>> \o BBitwise(Tail(a), Tail(b), xor)

BOr(a, b) == BBitwise(a, b, 0)

BXor(a, b) == BNorm(BBitwise(a, b, 1))

\* number of significant bits
RECURSIVE DigitLen(_)
DigitLen(x) == IF x = 0 THEN 0 ELSE 1 + DigitLen(x \div 2)

BBitLen(a) == IF a = <<>> THEN 0 ELSE 15 * (Len(a) - 1) + DigitLen(a[Len(a)])

\* floor(a / d) for d # 0, one quotient bit at a time; s = [k, r, q] holds
\* the number of dividend bits still to bring down, the remainder and the
\* quotient so far
BDivStep(a, d, s) ==
    LET r1 == BAdd(BShl(s.r, 1), BFromInt(BBit(a, s.k - 1)))
    IN  IF BGe(r1, d)
        THEN [k |-> s.k - 1, r |-> BSub(r1, d), q |-> BAdd(BShl(s.q, 1), <<1>>)]
        ELSE [k |-> s.k - 1, r |-> r1, q |-> BShl(s.q, 1)]

RECURSIVE BDivLoop(_, _, _)
BDivLoop(a, d, s) == IF s.k > 0 THEN BDivLoop(a, d, BDivStep(a, d, s)) ELSE s.q

BDiv(a, d) == BDivLoop(a, d, [k |-> BBitLen(a), r |-> <<>>, q |-> <<>>])

\* ------------------------------------------------------------------------
\* frostbite_softfloat.c, float (f32).  A float or an unsigned int is its
\* 32-bit pattern; a C int that the code only tests and adds (sign,
\* exponent, shift) is an integer.
\* ------------------------------------------------------------------------
\* the conversions (u32)a and (u64)a
AsU32(a) == BLow(a, 32)
AsU64(a) == BLow(a, 64)

\* -a in two's complement of width w
Neg(a, w) == BLow(BSub(BPow2(w), a), w)

\* (i32)a < 0 and (i32)a < (i32)b
I32Negative(a) == BGe(a, BPow2(31))
I32Lt(a, b) ==
    IF I32Negative(a) # I32Negative(b) THEN I32Negative(a) ELSE BLt(a, b)

f32_sign(a) == BToInt(BLow(BShr(a, 31), 1))
f32_exp(a) == BToInt(BLow(BShr(a, 23), 8))
f32_frac(a) == BLow(a, 23)
f32_is_nan(a) == f32_exp(a) = 255 /\ f32_frac(a) # <<>>

f32_pack(sr, er, fr) ==
    BOr(BOr(BShl(BFromInt(sr), 31), BShl(BFromInt(er), 23)), BLow(AsU32(fr), 23))

f32_cmp_no_transform(a, b) ==
    IF f32_is_nan(a) \/ f32_is_nan(b) THEN [cmp |-> 0, unordered |-> 1]
    ELSE IF BLow(a, 31) = <<>> /\ BLow(b, 31) = <<>> THEN [cmp |-> 0, unordered |-> 0]
    ELSE IF I32Lt(a, b) THEN [cmp |-> -1, unordered |-> 0]
         ELSE IF I32Lt(b, a) THEN [cmp |-> 1, unordered |-> 0]
         ELSE [cmp |-> 0, unordered |-> 0]
f32_cmp(a, b) ==
    IF f32_is_nan(a) \/ f32_is_nan(b) THEN [cmp |-> 0, unordered |-> 1]
    ELSE IF BLow(a, 31) = <<>> /\ BLow(b, 31) = <<>> THEN [cmp |-> 0, unordered |-> 0]
    ELSE LET sa == IF I32Negative(a) THEN AsU32(BAdd(BPow2(31), Neg(a, 32))) ELSE a
             sb == IF I32Negative(b) THEN AsU32(BAdd(BPow2(31), Neg(b, 32))) ELSE b
         IN  IF I32Lt(sa, sb) THEN [cmp |-> -1, unordered |-> 0]
             ELSE IF I32Lt(sb, sa) THEN [cmp |-> 1, unordered |-> 0]
             ELSE [cmp |-> 0, unordered |-> 0]

__gtsf2(a, b) == IF f32_cmp(a, b).unordered # 0 THEN -1 ELSE f32_cmp(a, b).cmp
__gesf2(a, b) == IF f32_cmp(a, b).unordered # 0 THEN -1 ELSE f32_cmp(a, b).cmp
__ltsf2_false_on_nan(a, b) == IF f32_cmp(a, b).unordered # 0 THEN -1 ELSE f32_cmp(a, b).cmp
__ltsf2(a, b) == IF f32_cmp(a, b).unordered # 0 THEN 1 ELSE f32_cmp(a, b).cmp
__lesf2(a, b) == IF f32_cmp(a, b).unordered # 0 THEN 1 ELSE f32_cmp(a, b).cmp
__eqsf2_ignores_nan(a, b) == IF f32_cmp(a, b).cmp = 0 THEN 0 ELSE 1
__eqsf2(a, b) ==
    IF f32_cmp(a, b).unordered # 0 THEN 1
    ELSE IF f32_cmp(a, b).cmp = 0 THEN 0 ELSE 1
__nesf2(a, b) ==
    IF f32_cmp(a, b).unordered # 0 THEN 1
    ELSE IF f32_cmp(a, b).cmp = 0 THEN 0 ELSE 1
__unordsf2(a, b) ==
    IF (f32_exp(a) = 255 /\ f32_frac(a) # <<>>) \/ (f32_exp(b) = 255 /\ f32_frac(b) # <<>>)
    THEN 1 ELSE 0

\* while (fr >= lim) { fr >>= 1; er++; }
RECURSIVE NormRight(_, _, _)
NormRight(fr, er, lim) ==
    IF BGe(fr, lim) THEN NormRight(BShr(fr, 1), er + 1, lim) ELSE <<fr, er>>

\* while (fr < lim && er > 0) { fr <<= 1; er--; }
RECURSIVE NormLeft(_, _, _)
NormLeft(fr, er, lim) ==
    IF BLt(fr, lim) /\ er > 0 THEN NormLeft(AsU64(BShl(fr, 1)), er - 1, lim)
    ELSE <<fr, er>>

\* __addsf3 from the exponent alignment on (both exponent fields non-zero)
addsf3_aligned_cut8(a, b) ==
    LET sa == f32_sign(a)
        sb == f32_sign(b)
        ea == f32_exp(a)
        eb == f32_exp(b)
        diff == ea - eb
        fa == IF diff < 0 THEN BShr(BOr(f32_frac(a), BPow2(23)), -diff)
                          ELSE BOr(f32_frac(a), BPow2(23))
        fb == IF diff > 0 THEN BShr(BOr(f32_frac(b), BPow2(23)), diff)
                          ELSE BOr(f32_frac(b), BPow2(23))
        e == IF diff < 0 THEN eb ELSE ea
        fr == IF sa = sb THEN BAdd(fa, fb)
              ELSE IF BGe(fa, fb) THEN BSub(fa, fb) ELSE BSub(fb, fa)
        sr == IF sa = sb THEN sa ELSE IF BGe(fa, fb) THEN sa ELSE sb
        n == NormLeft(NormRight(fr, e, BPow2(24))[1], NormRight(fr, e, BPow2(24))[2],
                      BPow2(23))
    IN  IF diff > 8 THEN a
        ELSE IF -diff > 8 THEN b
        ELSE IF fr = <<>> THEN <<>>
        ELSE IF n[2] >= 255 THEN f32_pack(sr, 255, <<>>)
        ELSE IF n[2] <= 0 THEN f32_pack(sr, 0, <<>>)
        ELSE f32_pack(sr, n[2], n[1])
addsf3_aligned(a, b) ==
    LET sa == f32_sign(a)
        sb == f32_sign(b)
        ea == f32_exp(a)
        eb == f32_exp(b)
        diff == ea - eb
        fa == IF diff < 0 THEN BShr(BOr(f32_frac(a), BPow2(23)), -diff)
                          ELSE BOr(f32_frac(a), BPow2(23))
        fb == IF diff > 0 THEN BShr(BOr(f32_frac(b), BPow2(23)), diff)
                          ELSE BOr(f32_frac(b), BPow2(23))
        e == IF diff < 0 THEN eb ELSE ea
        fr == IF sa = sb THEN BAdd(fa, fb)
              ELSE IF BGe(fa, fb) THEN BSub(fa, fb) ELSE BSub(fb, fa)
        sr == IF sa = sb THEN sa ELSE IF BGe(fa, fb) THEN sa ELSE sb
        n == NormLeft(NormRight(fr, e, BPow2(24))[1], NormRight(fr, e, BPow2(24))[2],
                      BPow2(23))
    IN  IF diff > 24 THEN a
        ELSE IF -diff > 24 THEN b
        ELSE IF fr = <<>> THEN <<>>
        ELSE IF n[2] >= 255 THEN f32_pack(sr, 255, <<>>)
        ELSE IF n[2] <= 0 THEN f32_pack(sr, 0, <<>>)
        ELSE f32_pack(sr, n[2], n[1])

__addsf3_exponent_test_first(a, b) ==
    IF f32_exp(a) = 0 THEN b
    ELSE IF f32_exp(b) = 0 THEN a
    ELSE IF BLow(a, 31) = <<>> THEN b
    ELSE IF BLow(b, 31) = <<>> THEN a
    ELSE addsf3_aligned(a, b)
__addsf3(a, b) ==
    IF BLow(a, 31) = <<>> THEN b
    ELSE IF BLow(b, 31) = <<>> THEN a
    ELSE IF f32_exp(a) = 0 THEN b
    ELSE IF f32_exp(b) = 0 THEN a
    ELSE addsf3_aligned(a, b)

__subsf3(a, b) == __addsf3(a, BXor(b, BPow2(31)))

__mulsf3_one_zero_test(a, b) ==
    LET sr == (f32_sign(a) + f32_sign(b)) % 2
        ea == f32_exp(a)
        eb == f32_exp(b)
        fa == BOr(f32_frac(a), BPow2(23))
        fb == BOr(f32_frac(b), BPow2(23))
        fr0 == BShr(AsU64(BMul(fa, fb)), 23)
        fr == IF BGe(fr0, BPow2(24)) THEN BShr(fr0, 1) ELSE fr0
        er == IF BGe(fr0, BPow2(24)) THEN ea + eb - 127 + 1 ELSE ea + eb - 127
    IN  IF BLow(a, 31) = <<>> THEN f32_pack(sr, 0, <<>>)
        ELSE IF ea = 255 \/ eb = 255 THEN f32_pack(sr, 255, <<>>)
        ELSE IF er >= 255 THEN f32_pack(sr, 255, <<>>)
        ELSE IF er <= 0 THEN f32_pack(sr, 0, <<>>)
        ELSE f32_pack(sr, er, fr)
__mulsf3(a, b) ==
    LET sr == (f32_sign(a) + f32_sign(b)) % 2
        ea == f32_exp(a)
        eb == f32_exp(b)
        fa == BOr(f32_frac(a), BPow2(23))
        fb == BOr(f32_frac(b), BPow2(23))
        fr0 == BShr(AsU64(BMul(fa, fb)), 23)
        fr == IF BGe(fr0, BPow2(24)) THEN BShr(fr0, 1) ELSE fr0
        er == IF BGe(fr0, BPow2(24)) THEN ea + eb - 127 + 1 ELSE ea + eb - 127
    IN  IF BLow(a, 31) = <<>> \/ BLow(b, 31) = <<>> THEN f32_pack(sr, 0, <<>>)
        ELSE IF ea = 255 \/ eb = 255 THEN f32_pack(sr, 255, <<>>)
        ELSE IF er >= 255 THEN f32_pack(sr, 255, <<>>)
        ELSE IF er <= 0 THEN f32_pack(sr, 0, <<>>)
        ELSE f32_pack(sr, er, fr)

__divsf3_dividend_sign(a, b) ==
    LET sr == f32_sign(a)
        ea == f32_exp(a)
        eb == f32_exp(b)
        fa == BOr(f32_frac(a), BPow2(23))
        fb == BOr(f32_frac(b), BPow2(23))
        fr0 == BDiv(AsU64(BShl(fa, 24)), fb)
        n == NormLeft(NormRight(fr0, ea - eb + 127, BPow2(24))[1],
                      NormRight(fr0, ea - eb + 127, BPow2(24))[2], BPow2(23))
    IN  IF BLow(b, 31) = <<>> THEN f32_pack(sr, 255, <<>>)
        ELSE IF BLow(a, 31) = <<>> THEN f32_pack(sr, 0, <<>>)
        ELSE IF n[2] >= 255 THEN f32_pack(sr, 255, <<>>)
        ELSE IF n[2] <= 0 THEN f32_pack(sr, 0, <<>>)
        ELSE f32_pack(sr, n[2], n[1])
__divsf3(a, b) ==
    LET sr == (f32_sign(a) + f32_sign(b)) % 2
        ea == f32_exp(a)
        eb == f32_exp(b)
        fa == BOr(f32_frac(a), BPow2(23))
        fb == BOr(f32_frac(b), BPow2(23))
        fr0 == BDiv(AsU64(BShl(fa, 24)), fb)
        n == NormLeft(NormRight(fr0, ea - eb + 127, BPow2(24))[1],
                      NormRight(fr0, ea - eb + 127, BPow2(24))[2], BPow2(23))
    IN  IF BLow(b, 31) = <<>> THEN f32_pack(sr, 255, <<>>)
        ELSE IF BLow(a, 31) = <<>> THEN f32_pack(sr, 0, <<>>)
        ELSE IF n[2] >= 255 THEN f32_pack(sr, 255, <<>>)
        ELSE IF n[2] <= 0 THEN f32_pack(sr, 0, <<>>)
        ELSE f32_pack(sr, n[2], n[1])

\* the int result is its 32-bit two's complement pattern
__fixsfsi_late_saturation(a) ==
    LET s == f32_sign(a)
        e == f32_exp(a)
        f == BOr(f32_frac(a), BPow2(23))
        shift == e - 127 - 23
        result == IF shift >= 0 THEN AsU32(BShl(f, shift)) ELSE BShr(f, -shift)
    IN  IF e < 127 THEN <<>>
        ELSE IF e >= 127 + 32 THEN (IF s = 1 THEN BPow2(31) ELSE BSub(BPow2(31), <<1>>))
        ELSE IF s = 1 THEN Neg(result, 32) ELSE result
__fixsfsi(a) ==
    LET s == f32_sign(a)
        e == f32_exp(a)
        f == BOr(f32_frac(a), BPow2(23))
        shift == e - 127 - 23
        result == IF shift >= 0 THEN AsU32(BShl(f, shift)) ELSE BShr(f, -shift)
    IN  IF e < 127 THEN <<>>
        ELSE IF e >= 127 + 31 THEN (IF s = 1 THEN BPow2(31) ELSE BSub(BPow2(31), <<1>>))
        ELSE IF s = 1 THEN Neg(result, 32) ELSE result

\* while ((ua & top) == 0) { ua <<= 1; e--; } for a non-zero ua of width w
RECURSIVE ShiftToTop(_, _, _)
ShiftToTop(ua, e, w) ==
    IF BBit(ua, w - 1) = 0 THEN ShiftToTop(BLow(BShl(ua, 1), w), e - 1, w)
    ELSE <<ua, e>>

\* __floatsisf whose exponent starts one too low
__floatsisf_exponent_30(a) ==
    LET s == IF I32Negative(a) THEN 1 ELSE 0
        ua == IF I32Negative(a) THEN Neg(a, 32) ELSE a
        n == ShiftToTop(ua, 127 + 30, 32)
    IN  IF a = <<>> THEN <<>>
        ELSE BOr(BOr(BShl(BFromInt(s), 31), BShl(BFromInt(n[2]), 23)),
                 BLow(BShr(n[1], 8), 23))
__floatsisf(a) ==
    LET s == IF I32Negative(a) THEN 1 ELSE 0
        ua == IF I32Negative(a) THEN Neg(a, 32) ELSE a
        n == ShiftToTop(ua, 127 + 31, 32)
    IN  IF a = <<>> THEN <<>>
        ELSE BOr(BOr(BShl(BFromInt(s), 31), BShl(BFromInt(n[2]), 23)),
                 BLow(BShr(n[1], 8), 23))

__floatunsisf(a) ==
    LET n == ShiftToTop(a, 127 + 31, 32)
    IN  IF a = <<>> THEN <<>>
        ELSE BOr(BShl(BFromInt(n[2]), 23), BLow(BShr(n[1], 8), 23))

__fixunssfsi(a) ==
    LET e == f32_exp(a)
        f == BOr(f32_frac(a), BPow2(23))
        shift == e - 127 - 23
    IN  IF f32_sign(a) # 0 THEN <<>>
        ELSE IF e < 127 THEN <<>>
        ELSE IF e >= 127 + 32 THEN BSub(BPow2(32), <<1>>)
        ELSE IF shift >= 0 THEN AsU32(BShl(f, shift)) ELSE BShr(f, -shift)

__negsf2(a) == BXor(a, BPow2(31))

\* ------------------------------------------------------------------------
\* frostbite_softfloat.c, double (f64): a double, a long long or an
\* unsigned long long is its 64-bit pattern.
\* ------------------------------------------------------------------------
f64_sign(a) == BToInt(BLow(BShr(a, 63), 1))
f64_exp(a) == BToInt(BLow(BShr(a, 52), 11))
f64_frac(a) == BLow(a, 52)
f64_is_nan(a) == f64_exp(a) = 2047 /\ f64_frac(a) # <<>>

f64_pack(sr, er, fr) ==
    BOr(BOr(BShl(BFromInt(sr), 63), BShl(BFromInt(er), 52)), BLow(fr, 52))

f64_cmp(a, b) ==
    IF f64_is_nan(a) \/ f64_is_nan(b) THEN [cmp |-> 0, unordered |-> 1]
    ELSE IF BLow(a, 63) = <<>> /\ BLow(b, 63) = <<>> THEN [cmp |-> 0, unordered |-> 0]
    ELSE IF f64_sign(a) # f64_sign(b)
         THEN [cmp |-> IF f64_sign(a) # 0 THEN -1 ELSE 1, unordered |-> 0]
    ELSE IF BLow(a, 63) = BLow(b, 63) THEN [cmp |-> 0, unordered |-> 0]
    ELSE IF f64_sign(a) = 0
         THEN [cmp |-> IF BLt(BLow(a, 63), BLow(b, 63)) THEN -1 ELSE 1, unordered |-> 0]
    ELSE [cmp |-> IF BLt(BLow(a, 63), BLow(b, 63)) THEN 1 ELSE -1, unordered |-> 0]

__gtdf2(a, b) == IF f64_cmp(a, b).unordered # 0 THEN -1 ELSE f64_cmp(a, b).cmp
__gedf2(a, b) == IF f64_cmp(a, b).unordered # 0 THEN -1 ELSE f64_cmp(a, b).cmp
__ltdf2(a, b) == IF f64_cmp(a, b).unordered # 0 THEN 1 ELSE f64_cmp(a, b).cmp
__ledf2(a, b) == IF f64_cmp(a, b).unordered # 0 THEN 1 ELSE f64_cmp(a, b).cmp
__eqdf2(a, b) ==
    IF f64_cmp(a, b).unordered # 0 THEN 1
    ELSE IF f64_cmp(a, b).cmp = 0 THEN 0 ELSE 1
__nedf2(a, b) ==
    IF f64_cmp(a, b).unordered # 0 THEN 1
    ELSE IF f64_cmp(a, b).cmp = 0 THEN 0 ELSE 1
__unorddf2(a, b) ==
    IF (f64_exp(a) = 2047 /\ f64_frac(a) # <<>>) \/ (f64_exp(b) = 2047 /\ f64_frac(b) # <<>>)
    THEN 1 ELSE 0

mul_u64(a, b) ==
    LET a_lo == BLow(a, 32)
        a_hi == BShr(a, 32)
        b_lo == BLow(b, 32)
        b_hi == BShr(b, 32)
        p0 == AsU64(BMul(a_lo, b_lo))
        p1 == AsU64(BMul(a_lo, b_hi))
        p2 == AsU64(BMul(a_hi, b_lo))
        p3 == AsU64(BMul(a_hi, b_hi))
        mid == AsU64(BAdd(BAdd(BLow(p1, 32), BLow(p2, 32)), BShr(p0, 32)))
    IN  [hi |-> AsU64(BAdd(BAdd(p3, BShr(p1, 32)), BAdd(BShr(p2, 32), BShr(mid, 32)))),
         lo |-> BOr(AsU64(BShl(mid, 32)), BLow(p0, 32))]

\* one iteration of the loop of div_u128_u64 on s = [i, hi, lo, q, r]
div_u128_u64_step(s, d) ==
    LET r1 == BOr(AsU64(BShl(s.r, 1)), BShr(s.hi, 63))
        hi1 == BOr(AsU64(BShl(s.hi, 1)), BShr(s.lo, 63))
        lo1 == AsU64(BShl(s.lo, 1))
        q1 == AsU64(BShl(s.q, 1))
    IN  IF BGe(r1, d)
        THEN [i |-> s.i + 1, hi |-> hi1, lo |-> lo1, q |-> BOr(q1, <<1>>), r |-> BSub(r1, d)]
        ELSE [i |-> s.i + 1, hi |-> hi1, lo |-> lo1, q |-> q1, r |-> r1]

\* the iterations up to i = stop
RECURSIVE div_u128_u64_upto(_, _, _)
div_u128_u64_upto(s, d, stop) ==
    IF s.i < stop THEN div_u128_u64_upto(div_u128_u64_step(s, d), d, stop) ELSE s

\* for (i = 0; i < 128; i++), evaluated sixteen iterations at a time
RECURSIVE div_u128_u64_loop(_, _, _)
div_u128_u64_loop(s, d, stop) ==
    IF stop = 0 THEN s
    ELSE div_u128_u64_upto(div_u128_u64_loop(s, d, stop - 16), d, stop)

div_u128_u64(hi, lo, d) ==
    div_u128_u64_loop([i |-> 0, hi |-> hi, lo |-> lo, q |-> <<>>, r |-> <<>>], d, 128).q

u64_to_f64_bits(a, sign) ==
    LET n == ShiftToTop(a, 1023 + 63, 64)
    IN  IF a = <<>> THEN BShl(BFromInt(sign), 63)
        ELSE BOr(BOr(BShl(BFromInt(sign), 63), BShl(BFromInt(n[2]), 52)),
                 BLow(BShr(n[1], 11), 52))

\* the aligned addition whose zero result keeps the sign of the first operand
adddf3_aligned_signed_zero(a, b) ==
    LET sa == f64_sign(a)
        sb == f64_sign(b)
        ea == f64_exp(a)
        eb == f64_exp(b)
        diff == ea - eb
        fa == IF diff < 0 THEN BShr(BOr(f64_frac(a), BPow2(52)), -diff)
                          ELSE BOr(f64_frac(a), BPow2(52))
        fb == IF diff > 0 THEN BShr(BOr(f64_frac(b), BPow2(52)), diff)
                          ELSE BOr(f64_frac(b), BPow2(52))
        e == IF diff < 0 THEN eb ELSE ea
        fr == IF sa = sb THEN AsU64(BAdd(fa, fb))
              ELSE IF BGe(fa, fb) THEN BSub(fa, fb) ELSE BSub(fb, fa)
        sr == IF sa = sb THEN sa ELSE IF BGe(fa, fb) THEN sa ELSE sb
        n == NormLeft(NormRight(fr, e, BPow2(53))[1], NormRight(fr, e, BPow2(53))[2],
                      BPow2(52))
    IN  IF diff > 60 THEN a
        ELSE IF -diff > 60 THEN b
        ELSE IF fr = <<>> THEN f64_pack(sr, 0, <<>>)
        ELSE IF n[2] >= 2047 THEN f64_pack(sr, 2047, <<>>)
        ELSE IF n[2] <= 0 THEN f64_pack(sr, 0, <<>>)
        ELSE f64_pack(sr, n[2], n[1])
\* __adddf3 from the exponent alignment on (both operands normal)
adddf3_aligned(a, b) ==
    LET sa == f64_sign(a)
        sb == f64_sign(b)
        ea == f64_exp(a)
        eb == f64_exp(b)
        diff == ea - eb
        fa == IF diff < 0 THEN BShr(BOr(f64_frac(a), BPow2(52)), -diff)
                          ELSE BOr(f64_frac(a), BPow2(52))
        fb == IF diff > 0 THEN BShr(BOr(f64_frac(b), BPow2(52)), diff)
                          ELSE BOr(f64_frac(b), BPow2(52))
        e == IF diff < 0 THEN eb ELSE ea
        fr == IF sa = sb THEN AsU64(BAdd(fa, fb))
              ELSE IF BGe(fa, fb) THEN BSub(fa, fb) ELSE BSub(fb, fa)
        sr == IF sa = sb THEN sa ELSE IF BGe(fa, fb) THEN sa ELSE sb
        n == NormLeft(NormRight(fr, e, BPow2(53))[1], NormRight(fr, e, BPow2(53))[2],
                      BPow2(52))
    IN  IF diff > 60 THEN a
        ELSE IF -diff > 60 THEN b
        ELSE IF fr = <<>> THEN <<>>
        ELSE IF n[2] >= 2047 THEN f64_pack(sr, 2047, <<>>)
        ELSE IF n[2] <= 0 THEN f64_pack(sr, 0, <<>>)
        ELSE f64_pack(sr, n[2], n[1])

__adddf3(a, b) ==
    IF BLow(a, 63) = <<>> THEN b
    ELSE IF BLow(b, 63) = <<>> THEN a
    ELSE IF f64_exp(a) = 0 THEN b
    ELSE IF f64_exp(b) = 0 THEN a
    ELSE IF f64_exp(a) = 2047 THEN a
    ELSE IF f64_exp(b) = 2047 THEN b
    ELSE adddf3_aligned(a, b)

__subdf3(a, b) == __adddf3(a, BXor(b, BPow2(63)))

\* __muldf3 that tests the maximum exponent before the zero magnitude
__muldf3_max_exponent_first(a, b) ==
    LET sr == (f64_sign(a) + f64_sign(b)) % 2
        ea == f64_exp(a)
        eb == f64_exp(b)
        p == mul_u64(BOr(f64_frac(a), BPow2(52)), BOr(f64_frac(b), BPow2(52)))
        fr0 == BOr(AsU64(BShl(p.hi, 12)), BShr(p.lo, 52))
        fr == IF BGe(fr0, BPow2(53)) THEN BShr(fr0, 1) ELSE fr0
        er == IF BGe(fr0, BPow2(53)) THEN ea + eb - 1023 + 1 ELSE ea + eb - 1023
    IN  IF ea = 2047 \/ eb = 2047 THEN f64_pack(sr, 2047, <<>>)
        ELSE IF BLow(a, 63) = <<>> \/ BLow(b, 63) = <<>> THEN f64_pack(sr, 0, <<>>)
        ELSE IF er >= 2047 THEN f64_pack(sr, 2047, <<>>)
        ELSE IF er <= 0 THEN f64_pack(sr, 0, <<>>)
        ELSE f64_pack(sr, er, fr)
__muldf3(a, b) ==
    LET sr == (f64_sign(a) + f64_sign(b)) % 2
        ea == f64_exp(a)
        eb == f64_exp(b)
        p == mul_u64(BOr(f64_frac(a), BPow2(52)), BOr(f64_frac(b), BPow2(52)))
        fr0 == BOr(AsU64(BShl(p.hi, 12)), BShr(p.lo, 52))
        fr == IF BGe(fr0, BPow2(53)) THEN BShr(fr0, 1) ELSE fr0
        er == IF BGe(fr0, BPow2(53)) THEN ea + eb - 1023 + 1 ELSE ea + eb - 1023
    IN  IF BLow(a, 63) = <<>> \/ BLow(b, 63) = <<>> THEN f64_pack(sr, 0, <<>>)
        ELSE IF ea = 2047 \/ eb = 2047 THEN f64_pack(sr, 2047, <<>>)
        ELSE IF er >= 2047 THEN f64_pack(sr, 2047, <<>>)
        ELSE IF er <= 0 THEN f64_pack(sr, 0, <<>>)
        ELSE f64_pack(sr, er, fr)

__divdf3(a, b) ==
    LET sr == (f64_sign(a) + f64_sign(b)) % 2
        ea == f64_exp(a)
        eb == f64_exp(b)
        fa == BOr(f64_frac(a), BPow2(52))
        fb == BOr(f64_frac(b), BPow2(52))
        fr0 == div_u128_u64(BShr(fa, 11), AsU64(BShl(fa, 53)), fb)
        n == NormLeft(NormRight(fr0, ea - eb + 1023, BPow2(53))[1],
                      NormRight(fr0, ea - eb + 1023, BPow2(53))[2], BPow2(52))
    IN  IF BLow(b, 63) = <<>> THEN f64_pack(sr, 2047, <<>>)
        ELSE IF BLow(a, 63) = <<>> THEN f64_pack(sr, 0, <<>>)
        ELSE IF ea = 2047 \/ eb = 2047 THEN f64_pack(sr, 2047, <<>>)
        ELSE IF n[2] >= 2047 THEN f64_pack(sr, 2047, <<>>)
        ELSE IF n[2] <= 0 THEN f64_pack(sr, 0, <<>>)
        ELSE f64_pack(sr, n[2], n[1])

__negdf2(a) == BXor(a, BPow2(63))

\* the int argument is its 32-bit pattern, zero-extended by (u64)(unsigned int)a
__floatsidf(a) ==
    IF I32Negative(a)
    THEN u64_to_f64_bits(AsU64(BAdd(BSub(BSub(BPow2(64), <<1>>), a), <<1>>)), 1)
    ELSE u64_to_f64_bits(a, 0)

__floatunsidf(a) == u64_to_f64_bits(a, 0)

__fixdfsi(a) ==
    LET sign == f64_sign(a)
        exp == f64_exp(a)
        frac == BOr(f64_frac(a), BPow2(52))
        shift == exp - 1023 - 52
        result == IF shift >= 0 THEN AsU64(BShl(frac, shift)) ELSE BShr(frac, -shift)
    IN  IF exp < 1023 THEN <<>>
        ELSE IF exp >= 1023 + 31
             THEN (IF sign = 1 THEN BPow2(31) ELSE BSub(BPow2(31), <<1>>))
        ELSE IF sign = 1 THEN Neg(AsU32(result), 32) ELSE AsU32(result)

__fixunsdfsi(a) ==
    LET exp == f64_exp(a)
        frac == BOr(f64_frac(a), BPow2(52))
        shift == exp - 1023 - 52
        result == IF shift >= 0 THEN AsU64(BShl(frac, shift)) ELSE BShr(frac, -shift)
    IN  IF f64_sign(a) # 0 THEN <<>>
        ELSE IF exp < 1023 THEN <<>>
        ELSE IF exp >= 1023 + 32 THEN BSub(BPow2(32), <<1>>)
        ELSE AsU32(result)

__fixdfdi(a) ==
    LET sign == f64_sign(a)
        exp == f64_exp(a)
        frac == BOr(f64_frac(a), BPow2(52))
        shift == exp - 1023 - 52
        result == IF shift >= 0 THEN AsU64(BShl(frac, shift)) ELSE BShr(frac, -shift)
    IN  IF exp < 1023 THEN <<>>
        ELSE IF exp >= 1023 + 63
             THEN (IF sign = 1 THEN BPow2(63) ELSE BSub(BPow2(63), <<1>>))
        ELSE IF sign = 1 THEN Neg(result, 64) ELSE result

__fixunsdfdi(a) ==
    LET exp == f64_exp(a)
        frac == BOr(f64_frac(a), BPow2(52))
        shift == exp - 1023 - 52
        result == IF shift >= 0 THEN AsU64(BShl(frac, shift)) ELSE BShr(frac, -shift)
    IN  IF f64_sign(a) # 0 THEN <<>>
        ELSE IF exp < 1023 THEN <<>>
        ELSE IF exp >= 1023 + 64 THEN BSub(BPow2(64), <<1>>)
        ELSE result

\* ------------------------------------------------------------------------
\* Soft-float inputs: bit patterns given by sign, exponent field and
\* fraction field (the 52-bit fraction of a double in two halves of 26 bits)
\* ------------------------------------------------------------------------
F32(s, e, f) == BAdd(BAdd(BShl(BFromInt(s), 31), BShl(BFromInt(e), 23)), BFromInt(f))

F64(s, e, fhi, flo) ==
    BAdd(BAdd(BShl(BFromInt(s), 63), BShl(BFromInt(e), 52)),
         BAdd(BShl(BFromInt(fhi), 26), BFromInt(flo)))

I32(n) == IF n >= 0 THEN BFromInt(n) ELSE Neg(BFromInt(-n), 32)

F32_ONE == F32(0, 127, 0)
F32_TWO == F32(0, 128, 0)
F32_THREE == F32(0, 128, 2 ^ 22)
F32_3_9 == F32(0, 128, 7969178)
F32_PINF == F32(0, 255, 0)
F32_NAN == F32(0, 255, 2 ^ 22)

F64_ONE == F64(0, 1023, 0, 0)
F64_TWO == F64(0, 1024, 0, 0)
F64_THREE == F64(0, 1024, 2 ^ 25, 0)
F64_3_9 == F64(0, 1024, 63753420, 53687091)
F64_PINF == F64(0, 2047, 0, 0)
F64_NAN == F64(0, 2047, 2 ^ 25, 0)

\* zeros, subnormals, normals around 1 and around the alignment cut-off of
\* __addsf3, the largest normal, infinities and NaNs, of both signs
F32Inputs ==
    LET pos == {<<>>, F32(0, 0, 1), F32(0, 0, 2 ^ 22), F32(0, 1, 0),
                F32(0, 126, 1), F32_ONE, F32(0, 127, 1), F32(0, 127, 2 ^ 23 - 1),
                F32_TWO, F32_THREE, F32_3_9, F32(0, 151, 0), F32(0, 152, 0),
                F32(0, 254, 2 ^ 23 - 1), F32_PINF, F32_NAN, F32(0, 255, 1)}
    IN  pos \cup {__negsf2(a) : a \in pos}

\* values around the limits of int and unsigned int
F32ConvInputs ==
    LET pos == {F32(0, 126, 2 ^ 23 - 1), F32(0, 150, 2 ^ 23 - 1), F32(0, 157, 2 ^ 23 - 1),
                F32(0, 158, 0), F32(0, 158, 2 ^ 23 - 1), F32(0, 159, 0)}
    IN  F32Inputs \cup pos \cup {__negsf2(a) : a \in pos}

F64Inputs ==
    LET pos == {<<>>, F64(0, 0, 0, 1), F64(0, 1, 0, 0), F64(0, 1022, 0, 1),
                F64_ONE, F64(0, 1023, 0, 1), F64(0, 1023, 2 ^ 26 - 1, 2 ^ 26 - 1),
                F64_TWO, F64_THREE, F64_3_9, F64(0, 1083, 0, 0), F64(0, 1084, 0, 0),
                F64(0, 2046, 2 ^ 26 - 1, 2 ^ 26 - 1), F64_PINF, F64_NAN}
    IN  pos \cup {__negdf2(a) : a \in pos}

\* values around the limits of int, unsigned int and long long
F64ConvInputs ==
    LET pos == {F64(0, 1022, 2 ^ 26 - 1, 2 ^ 26 - 1), F64(0, 1053, 2 ^ 26 - 1, 2 ^ 26 - 1),
                F64(0, 1054, 0, 0), F64(0, 1054, 0, 2 ^ 20),
                F64(0, 1054, 2 ^ 26 - 1, 2 ^ 26 - 1), F64(0, 1055, 0, 0),
                F64(0, 1075, 0, 1), F64(0, 1085, 2 ^ 26 - 1, 2 ^ 26 - 1),
                F64(0, 1086, 0, 0), F64(0, 1087, 0, 0)}
    IN  F64Inputs \cup pos \cup {__negdf2(a) : a \in pos}

\* int arguments as 32-bit patterns: 0, small values of both signs, a value
\* of more than 24 significant bits, INT_MAX, INT_MIN
I32Inputs == {I32(0), I32(1), I32(-1), I32(5), I32(-5), I32(3), I32(-3),
              I32(2 ^ 24 + 1), I32(-(2 ^ 24 + 1)), I32(2 ^ 30), I32(-(2 ^ 30)),
              BSub(BPow2(31), <<1>>), Neg(BSub(BPow2(31), <<1>>), 32), BPow2(31)}

\* unsigned int arguments: the same patterns read as unsigned, and UINT_MAX
U32Inputs == I32Inputs \cup {BSub(BPow2(32), <<1>>)}

\* ------------------------------------------------------------------------
\* Soft-float operations: a run makes one call of one primitive
\* ------------------------------------------------------------------------
Idle == call.op = "none"

DoFloat(name, args, ret) ==
    /\ call' = [op |-> name, args |-> args, ret |-> ret, lazy |-> FALSE]
    /\ UNCHANGED <<FB_HEAP_SEGMENT, heapVars, panic_msg, allocs, freed, windows,
                   default_inits, explicit_cfg, ever_explicit, oversized, ncalls>>

\* the three-way comparison and the seven predicates built on it
CompareSF ==
    Idle /\ \E a, b \in F32Inputs :
        \E p \in {<<"f32_cmp", f32_cmp(a, b)>>,
                  <<"__gtsf2", __gtsf2(a, b)>>, <<"__gesf2", __gesf2(a, b)>>,
                  <<"__ltsf2", __ltsf2(a, b)>>, <<"__lesf2", __lesf2(a, b)>>,
                  <<"__eqsf2", __eqsf2(a, b)>>, <<"__nesf2", __nesf2(a, b)>>,
                  <<"__unordsf2", __unordsf2(a, b)>>} :
            DoFloat(p[1], <<a, b>>, p[2])
AddSF == Idle /\ \E a, b \in F32Inputs : DoFloat("__addsf3", <<a, b>>, __addsf3(a, b))
SubSF == Idle /\ \E a, b \in F32Inputs : DoFloat("__subsf3", <<a, b>>, __subsf3(a, b))
MulSF == Idle /\ \E a, b \in F32Inputs : DoFloat("__mulsf3", <<a, b>>, __mulsf3(a, b))
DivSF == Idle /\ \E a, b \in F32Inputs : DoFloat("__divsf3", <<a, b>>, __divsf3(a, b))
NegSF == Idle /\ \E a \in F32Inputs : DoFloat("__negsf2", <<a>>, __negsf2(a))
FixSFSI == Idle /\ \E a \in F32ConvInputs : DoFloat("__fixsfsi", <<a>>, __fixsfsi(a))
FixUnsSFSI == Idle /\ \E a \in F32ConvInputs : DoFloat("__fixunssfsi", <<a>>, __fixunssfsi(a))
FloatSISF == Idle /\ \E a \in I32Inputs : DoFloat("__floatsisf", <<a>>, __floatsisf(a))
FloatUnSISF == Idle /\ \E a \in U32Inputs : DoFloat("__floatunsisf", <<a>>, __floatunsisf(a))

CompareDF ==
    Idle /\ \E a, b \in F64Inputs :
        \E p \in {<<"f64_cmp", f64_cmp(a, b)>>,
                  <<"__gtdf2", __gtdf2(a, b)>>, <<"__gedf2", __gedf2(a, b)>>,
                  <<"__ltdf2", __ltdf2(a, b)>>, <<"__ledf2", __ledf2(a, b)>>,
                  <<"__eqdf2", __eqdf2(a, b)>>, <<"__nedf2", __nedf2(a, b)>>,
                  <<"__unorddf2", __unorddf2(a, b)>>} :
            DoFloat(p[1], <<a, b>>, p[2])
AddDF == Idle /\ \E a, b \in F64Inputs : DoFloat("__adddf3", <<a, b>>, __adddf3(a, b))
SubDF == Idle /\ \E a, b \in F64Inputs : DoFloat("__subdf3", <<a, b>>, __subdf3(a, b))
MulDF == Idle /\ \E a, b \in F64Inputs : DoFloat("__muldf3", <<a, b>>, __muldf3(a, b))
DivDF == Idle /\ \E a, b \in F64Inputs : DoFloat("__divdf3", <<a, b>>, __divdf3(a, b))
NegDF == Idle /\ \E a \in F64Inputs : DoFloat("__negdf2", <<a>>, __negdf2(a))
FixDFSI == Idle /\ \E a \in F64ConvInputs : DoFloat("__fixdfsi", <<a>>, __fixdfsi(a))
FixUnsDFSI == Idle /\ \E a \in F64ConvInputs : DoFloat("__fixunsdfsi", <<a>>, __fixunsdfsi(a))
FixDFDI == Idle /\ \E a \in F64ConvInputs : DoFloat("__fixdfdi", <<a>>, __fixdfdi(a))
FixUnsDFDI == Idle /\ \E a \in F64ConvInputs : DoFloat("__fixunsdfdi", <<a>>, __fixunsdfdi(a))
FloatSIDF == Idle /\ \E a \in I32Inputs : DoFloat("__floatsidf", <<a>>, __floatsidf(a))
FloatUnSIDF == Idle /\ \E a \in U32Inputs : DoFloat("__floatunsidf", <<a>>, __floatunsidf(a))

FloatInit == Init /\ FB_HEAP_SEGMENT = FB_HEAP_SEGMENT_COUNT

FloatNext ==
    \/ CompareSF
    \/ AddSF \/ SubSF \/ MulSF \/ DivSF \/ NegSF
    \/ FixSFSI \/ FixUnsSFSI \/ FloatSISF \/ FloatUnSISF
    \/ CompareDF
    \/ AddDF \/ SubDF \/ MulDF \/ DivDF \/ NegDF
    \/ FixDFSI \/ FixUnsDFSI \/ FixDFDI \/ FixUnsDFDI \/ FloatSIDF \/ FloatUnSIDF

FloatSpec == FloatInit /\ [][FloatNext]_vars

\* ------------------------------------------------------------------------
\* Vocabulary of the soft-float properties
\* ------------------------------------------------------------------------
\* the magnitude bits lie above those of infinity
IsNaN32(a) == BLt(F32_PINF, BLow(a, 31))
IsNaN64(a) == BLt(F64_PINF, BLow(a, 63))

IsFinite32(a) == BLt(BLow(a, 31), F32_PINF)
IsFinite64(a) == BLt(BLow(a, 63), F64_PINF)

IsZero32(a) == a \in {<<>>, __negsf2(<<>>)}
IsZero64(a) == a \in {<<>>, __negdf2(<<>>)}

\* ------------------------------------------------------------------------
\* Properties of the soft-float engine
\* ------------------------------------------------------------------------
\* C11 (as claimed): for every finite value v of either precision, zeros of
\* both signs and subnormals included, add(v, +0) returns the bit pattern
\* of v.
C11_AddPlusZeroReturnsV ==
    /\ (call.op = "__addsf3" /\ call.args[2] = <<>> /\ IsFinite32(call.args[1]))
           => call.ret = call.args[1]
    /\ (call.op = "__adddf3" /\ call.args[2] = <<>> /\ IsFinite64(call.args[1]))
           => call.ret = call.args[1]

\* C11 (amended): for every finite value v of either precision other than
\* -0, subnormals included, add(v, +0) returns the bit pattern of v; and
\* add(-0, +0) returns +0.
C11_AddPlusZeroReturnsVUnlessMinusZero ==
    /\ (call.op = "__addsf3" /\ call.args[2] = <<>> /\ IsFinite32(call.args[1]))
           => call.ret = IF call.args[1] = __negsf2(<<>>) THEN <<>> ELSE call.args[1]
    /\ (call.op = "__adddf3" /\ call.args[2] = <<>> /\ IsFinite64(call.args[1]))
           => call.ret = IF call.args[1] = __negdf2(<<>>) THEN <<>> ELSE call.args[1]

\* a subnormal v comes back unchanged from add(v, +0)
C11_Witness ==
    /\ call.op = "__addsf3"
    /\ call.args = <<F32(0, 0, 1), <<>>>>
    /\ call.ret = F32(0, 0, 1)

\* C12: addition is commutative bit for bit: for all pairs of finite
\* operands a, b of one precision, zeros of both signs and subnormals
\* included, add(a, b) and add(b, a) return the same bit pattern.
C12_AddCommutes ==
    /\ (call.op = "__addsf3" /\ IsFinite32(call.args[1]) /\ IsFinite32(call.args[2]))
           => call.ret = __addsf3(call.args[2], call.args[1])
    /\ (call.op = "__adddf3" /\ IsFinite64(call.args[1]) /\ IsFinite64(call.args[2]))
           => call.ret = __adddf3(call.args[2], call.args[1])

\* C13: multiplication is commutative bit for bit: for all pairs of finite
\* operands a, b of one precision, zeros of both signs and subnormals
\* included, mul(a, b) and mul(b, a) return the same bit pattern.
C13_MulCommutes ==
    /\ (call.op = "__mulsf3" /\ IsFinite32(call.args[1]) /\ IsFinite32(call.args[2]))
           => call.ret = __mulsf3(call.args[2], call.args[1])
    /\ (call.op = "__muldf3" /\ IsFinite64(call.args[1]) /\ IsFinite64(call.args[2]))
           => call.ret = __muldf3(call.args[2], call.args[1])

\* 3.0 * 3.9 was computed and is the finite non-zero value that 3.9 * 3.0 gives
C13_Witness ==
    /\ call.op = "__mulsf3"
    /\ call.args = <<F32_THREE, F32_3_9>>
    /\ f32_exp(call.ret) = 130
    /\ call.ret = __mulsf3(F32_3_9, F32_THREE)

\* C14: whenever either operand is a NaN the comparison primitive reports
\* unordered, __unordsf2 / __unorddf2 return 1 and __eqsf2 / __eqdf2 /
\* __nesf2 / __nedf2 return non-zero (not equal); when neither operand is a
\* NaN the primitive does not report unordered.
C14_NaNIsUnordered ==
    /\ call.op = "f32_cmp"
           => (call.ret.unordered # 0 <=> (IsNaN32(call.args[1]) \/ IsNaN32(call.args[2])))
    /\ call.op = "f64_cmp"
           => (call.ret.unordered # 0 <=> (IsNaN64(call.args[1]) \/ IsNaN64(call.args[2])))
    /\ (call.op = "__unordsf2" /\ (IsNaN32(call.args[1]) \/ IsNaN32(call.args[2])))
           => call.ret = 1
    /\ (call.op = "__unorddf2" /\ (IsNaN64(call.args[1]) \/ IsNaN64(call.args[2])))
           => call.ret = 1
    /\ (call.op \in {"__eqsf2", "__nesf2"} /\ (IsNaN32(call.args[1]) \/ IsNaN32(call.args[2])))
           => call.ret # 0
    /\ (call.op \in {"__eqdf2", "__nedf2"} /\ (IsNaN64(call.args[1]) \/ IsNaN64(call.args[2])))
           => call.ret # 0

\* __eqsf2(NaN, 1.0) reported not equal
C14_Witness ==
    /\ call.op = "__eqsf2"
    /\ call.args = <<F32_NAN, F32_ONE>>
    /\ call.ret = 1

MagLt32(a, b) ==
    \/ f32_exp(a) < f32_exp(b)
    \/ f32_exp(a) = f32_exp(b) /\ BLt(f32_frac(a), f32_frac(b))

MagLt64(a, b) ==
    \/ f64_exp(a) < f64_exp(b)
    \/ f64_exp(a) = f64_exp(b) /\ BLt(f64_frac(a), f64_frac(b))

NumLt32(a, b) ==
    IF IsZero32(a) /\ IsZero32(b) THEN FALSE
    ELSE IF f32_sign(a) # f32_sign(b) THEN f32_sign(a) = 1
    ELSE IF f32_sign(a) = 0 THEN MagLt32(a, b) ELSE MagLt32(b, a)

NumLt64(a, b) ==
    IF IsZero64(a) /\ IsZero64(b) THEN FALSE
    ELSE IF f64_sign(a) # f64_sign(b) THEN f64_sign(a) = 1
    ELSE IF f64_sign(a) = 0 THEN MagLt64(a, b) ELSE MagLt64(b, a)

NumOrder32(a, b) == IF NumLt32(a, b) THEN -1 ELSE IF NumLt32(b, a) THEN 1 ELSE 0
NumOrder64(a, b) == IF NumLt64(a, b) THEN -1 ELSE IF NumLt64(b, a) THEN 1 ELSE 0

\* the double of the same value as the non-NaN float a
Widen(a) ==
    LET s == f32_sign(a)
        e == f32_exp(a)
        f == f32_frac(a)
    IN  IF e = 255 THEN F64(s, 2047, 0, 0)
        ELSE IF e = 0 /\ f = <<>> THEN F64(s, 0, 0, 0)
        ELSE IF e = 0
             THEN BAdd(F64(s, BBitLen(f) - 150 + 1023, 0, 0),
                       BLow(BShl(f, 53 - BBitLen(f)), 52))
        ELSE BAdd(F64(s, e - 127 + 1023, 0, 0), BShl(f, 29))

\* C16: for non-NaN operands of either precision the comparison primitive
\* agrees with the numeric order (so +0 and -0 compare equal); if a < b
\* then greater-than reports false (not > 0) and less-than reports true
\* (< 0); and the 32-bit comparison of two floats gives the same answer as
\* the 64-bit comparison of the doubles of the same values.
C16_CompareIsNumericOrder ==
    /\ (call.op = "f32_cmp" /\ ~IsNaN32(call.args[1]) /\ ~IsNaN32(call.args[2]))
           => /\ call.ret.cmp = NumOrder32(call.args[1], call.args[2])
              /\ call.ret = f64_cmp(Widen(call.args[1]), Widen(call.args[2]))
    /\ (call.op = "f64_cmp" /\ ~IsNaN64(call.args[1]) /\ ~IsNaN64(call.args[2]))
           => call.ret.cmp = NumOrder64(call.args[1], call.args[2])
    /\ (call.op = "__gtsf2" /\ ~IsNaN32(call.args[1]) /\ ~IsNaN32(call.args[2])
            /\ NumLt32(call.args[1], call.args[2]))
           => ~(call.ret > 0)
    /\ (call.op = "__ltsf2" /\ ~IsNaN32(call.args[1]) /\ ~IsNaN32(call.args[2])
            /\ NumLt32(call.args[1], call.args[2]))
           => call.ret < 0
    /\ (call.op = "__gtdf2" /\ ~IsNaN64(call.args[1]) /\ ~IsNaN64(call.args[2])
            /\ NumLt64(call.args[1], call.args[2]))
           => ~(call.ret > 0)
    /\ (call.op = "__ltdf2" /\ ~IsNaN64(call.args[1]) /\ ~IsNaN64(call.args[2])
            /\ NumLt64(call.args[1], call.args[2]))
           => call.ret < 0

\* two negative floats were compared: -2.0 < -1.0
C16_Witness ==
    /\ call.op = "f32_cmp"
    /\ call.args = <<__negsf2(F32_TWO), __negsf2(F32_ONE)>>
    /\ call.ret = [cmp |-> -1, unordered |-> 0]

IsNormal32(a) == f32_exp(a) \in 1 .. 254
IsNormal64(a) == f64_exp(a) \in 1 .. 2046

\* the exact sum of the magnitudes ma * 2^ea and mb * 2^eb of two
\* significands of the given width, cut to its leading width bits: the
\* larger operand is shifted left, so no bit is lost before the cut
SumTruncated(ma, ea, mb, eb, width) ==
    LET lo == IF ea < eb THEN ea ELSE eb
        x == BAdd(BShl(ma, ea - lo), BShl(mb, eb - lo))
    IN  [exp |-> lo + BBitLen(x) - width, mant |-> BShr(x, BBitLen(x) - width)]

SumTruncated32(a, b) ==
    SumTruncated(BAdd(f32_frac(a), BPow2(23)), f32_exp(a),
                 BAdd(f32_frac(b), BPow2(23)), f32_exp(b), 24)

SumTruncated64(a, b) ==
    SumTruncated(BAdd(f64_frac(a), BPow2(52)), f64_exp(a),
                 BAdd(f64_frac(b), BPow2(52)), f64_exp(b), 53)

\* C17: for two normal operands of the same sign whose sum does not
\* overflow, add returns the exact sum truncated toward zero to the
\* significand width of the precision (24 or 53 bits); in particular
\* add_f32(1.0, 2.0) returns 0x40400000, the bit pattern of 3.0.
C17_AddTruncatesExactSum ==
    /\ (call.op = "__addsf3" /\ IsNormal32(call.args[1]) /\ IsNormal32(call.args[2])
            /\ f32_sign(call.args[1]) = f32_sign(call.args[2])
            /\ SumTruncated32(call.args[1], call.args[2]).exp < 255)
           => call.ret = BAdd(F32(f32_sign(call.args[1]),
                                  SumTruncated32(call.args[1], call.args[2]).exp, 0),
                              BLow(SumTruncated32(call.args[1], call.args[2]).mant, 23))
    /\ (call.op = "__adddf3" /\ IsNormal64(call.args[1]) /\ IsNormal64(call.args[2])
            /\ f64_sign(call.args[1]) = f64_sign(call.args[2])
            /\ SumTruncated64(call.args[1], call.args[2]).exp < 2047)
           => call.ret = BAdd(F64(f64_sign(call.args[1]),
                                  SumTruncated64(call.args[1], call.args[2]).exp, 0, 0),
                              BLow(SumTruncated64(call.args[1], call.args[2]).mant, 52))
    /\ (call.op = "__addsf3" /\ call.args = <<F32_ONE, F32_TWO>>)
           => call.ret = F32_THREE

\* (1 + 2^-23) + (1/2 + 2^-24) was added: the last bit of the smaller
\* operand is cut off
C17_Witness ==
    /\ call.op = "__addsf3"
    /\ call.args = <<F32(0, 127, 1), F32(0, 126, 1)>>
    /\ call.ret = F32(0, 127, 2 ^ 22 + 1)

\* C18: in both precisions, division by a zero-magnitude divisor with a
\* non-zero dividend returns infinity whose sign is the XOR of the operand
\* signs (div_f32(1.0, 0.0) = 0x7F800000), and a zero-magnitude dividend
\* with a non-zero divisor returns zero with the XOR sign; a result is
\* returned in both cases.
C18_DivisionByZero ==
    /\ (call.op = "__divsf3" /\ IsZero32(call.args[2]) /\ ~IsZero32(call.args[1]))
           => call.ret = F32((f32_sign(call.args[1]) + f32_sign(call.args[2])) % 2, 255, 0)
    /\ (call.op = "__divsf3" /\ IsZero32(call.args[1]) /\ ~IsZero32(call.args[2]))
           => call.ret = F32((f32_sign(call.args[1]) + f32_sign(call.args[2])) % 2, 0, 0)
    /\ (call.op = "__divdf3" /\ IsZero64(call.args[2]) /\ ~IsZero64(call.args[1]))
           => call.ret = F64((f64_sign(call.args[1]) + f64_sign(call.args[2])) % 2, 2047, 0, 0)
    /\ (call.op = "__divdf3" /\ IsZero64(call.args[1]) /\ ~IsZero64(call.args[2]))
           => call.ret = F64((f64_sign(call.args[1]) + f64_sign(call.args[2])) % 2, 0, 0, 0)
    /\ (call.op = "__divsf3" /\ call.args = <<F32_ONE, <<>>>>)
           => call.ret = F32_PINF

\* 1.0 / -0.0 returned minus infinity
C18_Witness ==
    /\ call.op = "__divsf3"
    /\ call.args = <<F32_ONE, __negsf2(<<>>)>>
    /\ call.ret = __negsf2(F32_PINF)

\* the integer part of the magnitude m * 2^(e - point) of a finite value
\* with significand m (implicit bit included) and unbiased exponent e >= 0
IntegerPart(m, e, point) == BShr(BShl(m, e), point)

\* the signed conversion to width bits: magnitude below 1 gives 0, a value
\* beyond the range the minimum or the maximum, anything else the integer
\* part with the sign (two's complement pattern)
Truncated(sign, m, e, point, width) ==
    IF e < 0 THEN <<>>
    ELSE IF sign = 0
         THEN (IF BLt(IntegerPart(m, e, point), BPow2(width - 1))
               THEN IntegerPart(m, e, point)
               ELSE BSub(BPow2(width - 1), <<1>>))
    ELSE IF BLt(IntegerPart(m, e, point), BPow2(width - 1))
         THEN BLow(BSub(BPow2(width), IntegerPart(m, e, point)), width)
         ELSE BPow2(width - 1)

Truncated32(a, width) ==
    Truncated(f32_sign(a), BAdd(f32_frac(a), BPow2(23)), f32_exp(a) - 127, 23, width)

Truncated64(a, width) ==
    Truncated(f64_sign(a), BAdd(f64_frac(a), BPow2(52)), f64_exp(a) - 1023, 52, width)

\* C19: for every finite input __fixsfsi, __fixdfsi and __fixdfdi return
\* the value with its fraction discarded (magnitude below 1 gives 0,
\* 3.9 gives 3, -3.9 gives -3), and the minimum or the maximum of the
\* target when the value lies beyond its range; the unsigned conversions
\* return 0 for every negative input.
C19_FixTruncatesAndSaturates ==
    /\ (call.op = "__fixsfsi" /\ IsFinite32(call.args[1]))
           => call.ret = Truncated32(call.args[1], 32)
    /\ (call.op = "__fixdfsi" /\ IsFinite64(call.args[1]))
           => call.ret = Truncated64(call.args[1], 32)
    /\ (call.op = "__fixdfdi" /\ IsFinite64(call.args[1]))
           => call.ret = Truncated64(call.args[1], 64)
    /\ (call.op = "__fixunssfsi" /\ f32_sign(call.args[1]) = 1) => call.ret = <<>>
    /\ (call.op \in {"__fixunsdfsi", "__fixunsdfdi"} /\ f64_sign(call.args[1]) = 1)
           => call.ret = <<>>
    /\ (call.op = "__fixsfsi" /\ call.args = <<F32_3_9>>) => call.ret = I32(3)
    /\ (call.op = "__fixsfsi" /\ call.args = <<__negsf2(F32_3_9)>>) => call.ret = I32(-3)
    /\ (call.op = "__fixdfsi" /\ call.args = <<F64_3_9>>) => call.ret = I32(3)
    /\ (call.op = "__fixdfsi" /\ call.args = <<__negdf2(F64_3_9)>>) => call.ret = I32(-3)

\* -3.9 was converted to -3
C19_Witness ==
    /\ call.op = "__fixsfsi"
    /\ call.args = <<__negsf2(F32_3_9)>>
    /\ call.ret = I32(-3)

\* the double whose value is the integer of the given sign and magnitude
DoubleOf(sign, mag) ==
    IF mag = <<>> THEN <<>>
    ELSE BAdd(F64(sign, 1023 + BBitLen(mag) - 1, 0, 0),
              BLow(BShl(mag, 53 - BBitLen(mag)), 52))

\* C20: for every signed 32-bit i, negative values included, __floatsidf(i)
\* is the double whose value is i, and for every unsigned 32-bit u
\* __floatunsidf(u) is the double whose value is u; converting back with
\* __fixdfsi / __fixunsdfsi returns the original integer.
C20_Int32ToDoubleIsExact ==
    /\ call.op = "__floatsidf"
           => /\ call.ret = IF I32Negative(call.args[1])
                            THEN DoubleOf(1, Neg(call.args[1], 32))
                            ELSE DoubleOf(0, call.args[1])
              /\ __fixdfsi(call.ret) = call.args[1]
    /\ call.op = "__floatunsidf"
           => /\ call.ret = DoubleOf(0, call.args[1])
              /\ __fixunsdfsi(call.ret) = call.args[1]

\* the magnitude with every bit below its leading 24 cleared
KeepTop24(mag) ==
    IF BBitLen(mag) <= 24 THEN mag
    ELSE BShl(BShr(mag, BBitLen(mag) - 24), BBitLen(mag) - 24)

\* C21 (as claimed): the int -> float conversion loses no bits: for every
\* signed 32-bit i, __fixsfsi(__floatsisf(i)) = i, and for every unsigned
\* 32-bit u, __fixunssfsi(__floatunsisf(u)) = u.
C21_Int32ToFloatRoundTrip ==
    /\ call.op = "__floatsisf" => __fixsfsi(call.ret) = call.args[1]
    /\ call.op = "__floatunsisf" => __fixunssfsi(call.ret) = call.args[1]

\* C21 (amended): the conversion keeps the leading 24 bits of the magnitude
\* and clears the bits below them (truncation toward zero), so the round
\* trip through __fixsfsi / __fixunssfsi returns the integer with those bits
\* cleared; it returns i itself exactly when the magnitude of i has no set
\* bit below its leading 24, which covers every |i| < 2^24.
C21_Int32ToFloatKeeps24Bits ==
    /\ call.op = "__floatsisf"
           => __fixsfsi(call.ret) =
                  IF I32Negative(call.args[1])
                  THEN Neg(KeepTop24(Neg(call.args[1], 32)), 32)
                  ELSE KeepTop24(call.args[1])
    /\ call.op = "__floatunsisf"
           => __fixunssfsi(call.ret) = KeepTop24(call.args[1])

\* 2^24 + 1 came back as 2^24
C21_Witness ==
    /\ call.op = "__floatsisf"
    /\ call.args = <<I32(2 ^ 24 + 1)>>
    /\ __fixsfsi(call.ret) = I32(2 ^ 24)

\* C22: in multiplication of either precision the sign of the result is the
\* XOR of the operand signs; a zero-magnitude operand gives the signed zero,
\* also when the other operand is infinity or NaN; otherwise an operand with
\* the maximum exponent (infinity or NaN) gives the signed infinity with
\* zero fraction.
C22_MulSignZeroInfinity ==
    /\ call.op = "__mulsf3" =>
           LET a == call.args[1]
               b == call.args[2]
               sr == (f32_sign(a) + f32_sign(b)) % 2
           IN  /\ f32_sign(call.ret) = sr
               /\ (IsZero32(a) \/ IsZero32(b)) => call.ret = F32(sr, 0, 0)
               /\ (~IsZero32(a) /\ ~IsZero32(b) /\ (~IsFinite32(a) \/ ~IsFinite32(b)))
                      => call.ret = F32(sr, 255, 0)
    /\ call.op = "__muldf3" =>
           LET a == call.args[1]
               b == call.args[2]
               sr == (f64_sign(a) + f64_sign(b)) % 2
           IN  /\ f64_sign(call.ret) = sr
               /\ (IsZero64(a) \/ IsZero64(b)) => call.ret = F64(sr, 0, 0, 0)
               /\ (~IsZero64(a) /\ ~IsZero64(b) /\ (~IsFinite64(a) \/ ~IsFinite64(b)))
                      => call.ret = F64(sr, 2047, 0, 0)

\* -0 times +infinity gave -0
C22_Witness ==
    /\ call.op = "__muldf3"
    /\ call.args = <<__negdf2(<<>>), F64_PINF>>
    /\ call.ret = __negdf2(<<>>)

\* C24: for every normal value a of either precision, a plus its negation
\* in either operand order, and sub(a, a), return positive zero (the
\* all-zero bit pattern), never negative zero.
C24_CancellationIsPlusZero ==
    /\ (/\ call.op = "__addsf3"
        /\ IsNormal32(call.args[1])
        /\ call.args[2] = __negsf2(call.args[1])) => call.ret = <<>>
    /\ (/\ call.op = "__subsf3"
        /\ IsNormal32(call.args[1])
        /\ call.args[2] = call.args[1]) => call.ret = <<>>
    /\ (/\ call.op = "__adddf3"
        /\ IsNormal64(call.args[1])
        /\ call.args[2] = __negdf2(call.args[1])) => call.ret = <<>>
    /\ (/\ call.op = "__subdf3"
        /\ IsNormal64(call.args[1])
        /\ call.args[2] = call.args[1]) => call.ret = <<>>

\* -3.9 plus 3.9 gave +0
C24_Witness ==
    /\ call.op = "__adddf3"
    /\ call.args = <<__negdf2(F64_3_9), F64_3_9>>
    /\ call.ret = <<>>

\* C25 (as claimed): division returns the correctly scaled quotient: for
\* every normal a of either precision, div(a, 1.0) returns a bit for bit
\* and div(a, a) returns the bit pattern of 1.0.
C25_DivisionIsScaled ==
    /\ (call.op = "__divsf3" /\ IsNormal32(call.args[1]))
           => /\ call.args[2] = F32_ONE => call.ret = call.args[1]
              /\ call.args[2] = call.args[1] => call.ret = F32_ONE
    /\ (call.op = "__divdf3" /\ IsNormal64(call.args[1]))
           => /\ call.args[2] = F64_ONE => call.ret = call.args[1]
              /\ call.args[2] = call.args[1] => call.ret = F64_ONE

\* C29 (as claimed): infinity absorbs finite addends in both precisions
\* alike: for every finite normal x and either sign of infinity, __addsf3
\* and __adddf3 return the infinity operand unchanged, in either operand
\* order.
C29_InfinityAbsorbs ==
    /\ call.op = "__addsf3" =>
           /\ (BLow(call.args[1], 31) = F32_PINF /\ IsNormal32(call.args[2]))
                  => call.ret = call.args[1]
           /\ (BLow(call.args[2], 31) = F32_PINF /\ IsNormal32(call.args[1]))
                  => call.ret = call.args[2]
    /\ call.op = "__adddf3" =>
           /\ (BLow(call.args[1], 63) = F64_PINF /\ IsNormal64(call.args[2]))
                  => call.ret = call.args[1]
           /\ (BLow(call.args[2], 63) = F64_PINF /\ IsNormal64(call.args[1]))
                  => call.ret = call.args[2]

\* ------------------------------------------------------------------------
\* Further properties of the allocator
\* ------------------------------------------------------------------------
\* C23 (as claimed, for calls served from the active segment of a configured
\* heap): an fb_malloc(n) that returns non-null returns the cursor value
\* held before the call and advances the cursor by exactly the smallest
\* multiple of 8 greater than or equal to n, for every n a size_t can
\* hold.
C23_ReturnsCursorAdvancesByRoundedSize ==
    [][(/\ Returned(call')
        /\ ncalls' = ncalls + 1
        /\ ~Unconfigured
        /\ fb_heap_segment_index' = fb_heap_segment_index)
       => /\ call'.ret = fb_heap_ptr
          /\ fb_heap_ptr' = WAdd(fb_heap_ptr, RoundUp8(call'.args[1]))]_vars

\* C26 (as claimed, on a configured heap): an fb_malloc call that returns
\* null leaves the cursor, the segment end and the current segment index
\* as they were, so a request too large for every remaining segment does
\* not consume the remaining segments.
C26_NullLeavesHeapUnchanged ==
    [][(/\ IsNonZeroMalloc(call')
        /\ ncalls' = ncalls + 1
        /\ call'.ret = NULL
        /\ ~Unconfigured)
       => /\ fb_heap_ptr' = fb_heap_ptr
          /\ fb_heap_end' = fb_heap_end
          /\ fb_heap_segment_index' = fb_heap_segment_index]_vars

\* C27 (as claimed): after every configuration accepted by
\* fb_heap_init_segments each segment's window [base, segment_end) contains
\* only addresses whose segment identifier addr >> 28 is that segment's
\* identifier, so the windows of different segments are pairwise disjoint.
C27_WindowsWithinSegmentId ==
    (call.op = "fb_heap_init_segments" /\ panic_msg = "") =>
        /\ \A i \in 0 .. (fb_heap_segment_count - 1) :
               LET w == SegmentWindow(Heap, i)
                   id == SegmentId(FB_SEGMENT_ADDR(fb_heap_segment_start + i, NULL))
               IN  /\ WLt(w.base, w.end)
                   /\ SegmentId(w.base) = id
                   /\ SegmentId(Sub64(w.end, U64(1))) = id
        /\ \A i, j \in 0 .. (fb_heap_segment_count - 1) :
               i < j => \/ WLe(SegmentWindow(Heap, i).end, SegmentWindow(Heap, j).base)
                        \/ WLe(SegmentWindow(Heap, j).end, SegmentWindow(Heap, i).base)

AlignedWindows(ws) == \A w \in ws : w.base[4] % ALIGN = 0

\* C30: when the heap is configured with a first-segment offset (or a flat
\* base) that is a multiple of 8, every non-null address returned by
\* fb_malloc is a multiple of 8, after any sequence of requests and segment
\* advances.
C30_AlignedAddresses ==
    [][(/\ Returned(call')
        /\ ncalls' = ncalls + 1
        /\ AlignedWindows(windows'))
       => call'.ret[4] % ALIGN = 0]_vars

\* with a first-segment offset of 16, a request of 1 byte was served at
\* offset 16 and the next at offset 24
C30_Witness ==
    /\ call.op = "fb_malloc"
    /\ call.args = <<U64(1)>>
    /\ call.ret = FB_SEGMENT_ADDR(1, U64(24))
    /\ allocs = <<[addr |-> FB_SEGMENT_ADDR(1, U64(16)), size |-> U64(1)],
                  [addr |-> FB_SEGMENT_ADDR(1, U64(24)), size |-> U64(1)]>>
    /\ AlignedWindows(windows)

====
